---- MODULE Spec2Model ----
(***************************************************************************)
(* Model of the Meshtastic telemetry bridge of wesense-respiro:            *)
(*   tools/meshtastic_decoder.py      NodeCache, MeshtasticDecoder          *)
(*   tools/meshtastic_mqtt_monitor.py MeshtasticMonitor (decryption)        *)
(* Python values are modelled as follows: None is the empty sequence and a *)
(* present optional value v is <<v>>; a dict is a function whose DOMAIN is  *)
(* its key set; a str is a sequence of one-character strings; bytes are     *)
(* sequences of 0..255; a float obtained as i / 1e7 is the pair <<i, 1e7>>. *)
(***************************************************************************)
EXTENDS Integers, Sequences, FiniteSets, TLC

VARIABLES
    positions,        \* NodeCache.positions: node_id -> position dict
    node_names,       \* NodeCache.node_names: node_id -> long_name
    hardware_models,  \* NodeCache.hardware_models: node_id -> hw_model
    cache_file,       \* the snapshot file meshtastic_cache.json on disk
    message_count,    \* MeshtasticDecoder.message_count
    now,              \* int(time.time())
    ticks,            \* number of clock advances so far (bounded)
    io_failures,      \* number of failed file operations so far (bounded)
    restarts,         \* number of process restarts so far (bounded)
    delivered,        \* number of messages delivered so far (bounded)
    saves,            \* outcomes of the save_cache calls of the last call
    msg,              \* the message handled by the last _on_message call
    publishes,        \* output_client.publish calls of the last _on_message
    cache_reads,      \* NodeCache getters called by the last _on_message
    result,           \* how the last _on_message call ended
    channel_key,      \* MeshtasticMonitor.channel_key
    mon_count,        \* MeshtasticMonitor.message_count
    mon_packet,       \* packet handled by the last _decode_service_envelope
    mon_key,          \* key handed to algorithms.AES by the last _decrypt_packet
    mon_decrypted,    \* return value of the last _decrypt_packet
    mon_dispatch,     \* sub-decoder invoked by the last _decode_service_envelope
    pc,               \* the statement MeshtasticDecoder.run() is at
    input_client,     \* connection state of MeshtasticDecoder.input_client
    output_client,    \* connection state of MeshtasticDecoder.output_client
    output_loop,      \* the network thread started by output_client.loop_start()
    loop_iterations,  \* iterations of that thread so far (bounded)
    call              \* the last call of a pure function: arguments and result

cacheVars == <<positions, node_names, hardware_models>>
runVars == <<pc, input_client, output_client, output_loop, loop_iterations>>
decoderVars == <<positions, node_names, hardware_models, cache_file,
                 message_count, now, ticks, io_failures, restarts, delivered,
                 saves, msg, publishes, cache_reads, result,
                 pc, input_client, output_client, output_loop, loop_iterations>>
monitorVars == <<channel_key, mon_count, mon_packet, mon_key, mon_decrypted,
                 mon_dispatch>>
vars == <<positions, node_names, hardware_models, cache_file, message_count,
          now, ticks, io_failures, restarts, delivered, saves, msg, publishes,
          cache_reads, result,
          channel_key,
          mon_count, mon_packet, mon_key, mon_decrypted, mon_dispatch,
          pc, input_client, output_client, output_loop, loop_iterations, call>>

----------------------------------------------------------------------------
(* Python helpers *)

None == <<>>
Some(v) == <<v>>

\* the mutant of IntOr that prefers y
IntOrSecond(x, y) == IF y # 0 THEN y ELSE x

\* x or y, for an int x: 0 is falsy
IntOr(x, y) == IF x # 0 THEN x ELSE y

EmptyDict == [k \in {} |-> 0]

\* d[k] = v on a dict
DictSet(d, k, v) == [x \in DOMAIN d \cup {k} |-> IF x = k THEN v ELSE d[x]]

\* del d[k]
DictDel(d, k) == [x \in DOMAIN d \ {k} |-> d[x]]

\* str.replace(' ', '_')
ReplaceSpace(s) == [i \in 1..Len(s) |-> IF s[i] = " " THEN "_" ELSE s[i]]

HexDigits == <<"0", "1", "2", "3", "4", "5", "6", "7",
               "8", "9", "a", "b", "c", "d", "e", "f">>

RECURSIVE Pow16(_)
Pow16(k) == IF k = 0 THEN 1 ELSE 16 * Pow16(k - 1)

\* the mutant of Hex08 that formats the low 16 bits only
Hex08Low(n) ==
    [i \in 1..8 |-> HexDigits[(((n % 65536) \div Pow16(8 - i)) % 16) + 1]]

\* f"{n:08x}" for 0 <= n < 16^8
Hex08(n) == [i \in 1..8 |-> HexDigits[((n \div Pow16(8 - i)) % 16) + 1]]

\* node_id = f"!{getattr(packet, 'from'):08x}"
NodeId(from) == <<"!">> \o Hex08(from)

----------------------------------------------------------------------------
(* Program constants *)

max_age == 86400
MQTT_ERR_SUCCESS == 0
MQTT_ERR_NO_CONN == 4
UNKNOWN_APP == 0
TEXT_MESSAGE_APP == 1
ROUTING_APP == 5
POSITION_APP == 3
NODEINFO_APP == 4
TELEMETRY_APP == 67

\* mesh_pb2.HardwareModel.Name(v) for the enum values the model uses; any
\* other value makes Name() raise ValueError
HardwareModelNames == [v \in {4, 9, 43} |->
    CASE v = 4 -> "TBEAM" [] v = 9 -> "RAK4631" [] v = 43 -> "HELTEC_V3"]

----------------------------------------------------------------------------
(* NodeCache.  A cache value c is the record of the three in-memory dicts   *)
(* and the snapshot file.  t is int(time.time()) and io is the outcome of   *)
(* the file operation: "ok", "open_failed" or "write_failed".               *)

NoFile == [exists |-> FALSE, valid |-> FALSE, positions |-> EmptyDict,
           node_names |-> EmptyDict, hardware_models |-> EmptyDict,
           saved_at |-> 0]

\* a file truncated by open(.., 'w') whose json.dump did not complete
CorruptFile == [NoFile EXCEPT !.exists = TRUE]

\* json.dump of cache_data; json.load of the result gives back equal dicts
\* (str keys, int/float/None values), so the file is held as the dicts
Snapshot(c, t) == [exists |-> TRUE, valid |-> TRUE, positions |-> c.positions,
                   node_names |-> c.node_names,
                   hardware_models |-> c.hardware_models, saved_at |-> t]

\* the mutant of save_cache in which a failed write takes the in-memory
\* cache down with it
save_cache_fatal(c, t, io) ==
    CASE io = "ok"           -> [c EXCEPT !.cache_file = Snapshot(c, t)]
      [] io = "write_failed" -> [c EXCEPT !.cache_file = CorruptFile,
                                          !.positions = EmptyDict,
                                          !.node_names = EmptyDict,
                                          !.hardware_models = EmptyDict]
      [] OTHER               -> [c EXCEPT !.positions = EmptyDict,
                                          !.node_names = EmptyDict,
                                          !.hardware_models = EmptyDict]

save_cache(c, t, io) ==
    CASE io = "ok"           -> [c EXCEPT !.cache_file = Snapshot(c, t)]
      [] io = "write_failed" -> [c EXCEPT !.cache_file = CorruptFile]
      [] OTHER               -> c

\* the mutant of update_position that stamps the entry with the fix time
update_position_fix_stamped(c, node_id, latitude, longitude, altitude, timestamp, t, io) ==
    LET fix == IF timestamp # None /\ timestamp[1] # 0 THEN timestamp[1] ELSE t
        pos == [latitude   |-> latitude,
                longitude  |-> longitude,
                altitude   |-> altitude,
                timestamp  |-> fix,
                updated_at |-> fix]
    IN save_cache([c EXCEPT !.positions = DictSet(c.positions, node_id, pos)],
                  t, io)

update_position(c, node_id, latitude, longitude, altitude, timestamp, t, io) ==
    LET pos == [latitude   |-> latitude,
                longitude  |-> longitude,
                altitude   |-> altitude,
                timestamp  |-> IF timestamp # None /\ timestamp[1] # 0
                               THEN timestamp[1] ELSE t,
                updated_at |-> t]
    IN save_cache([c EXCEPT !.positions = DictSet(c.positions, node_id, pos)],
                  t, io)

\* the mutant of update_name that drops the position of the renamed node
update_name_relocating(c, node_id, long_name, t, io) ==
    save_cache([c EXCEPT !.node_names = DictSet(c.node_names, node_id, long_name),
                         !.positions = [n \in DOMAIN c.positions \ {node_id} |->
                                           c.positions[n]]],
               t, io)

update_name(c, node_id, long_name, t, io) ==
    save_cache([c EXCEPT !.node_names = DictSet(c.node_names, node_id, long_name)],
               t, io)

\* the mutant of update_hardware that does not call save_cache
update_hardware_unsaved(c, node_id, hw_model, t, io) ==
    [c EXCEPT !.hardware_models = DictSet(c.hardware_models, node_id, hw_model)]

update_hardware(c, node_id, hw_model, t, io) ==
    save_cache([c EXCEPT !.hardware_models =
                             DictSet(c.hardware_models, node_id, hw_model)],
               t, io)

\* the mutant of Expired that already expires an entry whose age is max_age
ExpiredAtMaxAge(pos, t) == t - pos.updated_at >= max_age

\* age > self.max_age
Expired(pos, t) == t - pos.updated_at > max_age

\* the mutant of get_position that removes every expired position when it
\* finds the node's own expired
get_position_sweeping(c, node_id, t) ==
    IF node_id \notin DOMAIN c.positions
    THEN [c |-> c, ret |-> None]
    ELSE IF Expired(c.positions[node_id], t)
         THEN [c   |-> [c EXCEPT !.positions =
                           [n \in {x \in DOMAIN c.positions :
                                      ~Expired(c.positions[x], t)} |->
                               c.positions[n]]],
               ret |-> None]
         ELSE [c |-> c, ret |-> Some(c.positions[node_id])]

\* the mutant of get_position whose eviction also forgets the node's name
get_position_forgetting(c, node_id, t) ==
    IF node_id \notin DOMAIN c.positions
    THEN [c |-> c, ret |-> None]
    ELSE IF Expired(c.positions[node_id], t)
         THEN [c   |-> [c EXCEPT !.positions = DictDel(c.positions, node_id),
                                 !.node_names =
                                     [n \in DOMAIN c.node_names \ {node_id} |->
                                         c.node_names[n]]],
               ret |-> None]
         ELSE [c |-> c, ret |-> Some(c.positions[node_id])]

\* the mutant of get_position that returns the stored position whatever its
\* age
get_position_unchecked(c, node_id, t) ==
    IF node_id \notin DOMAIN c.positions
    THEN [c |-> c, ret |-> None]
    ELSE [c |-> c, ret |-> Some(c.positions[node_id])]

\* returns the cache after the call and the returned value
get_position(c, node_id, t) ==
    IF node_id \notin DOMAIN c.positions
    THEN [c |-> c, ret |-> None]
    ELSE IF Expired(c.positions[node_id], t)
         THEN [c   |-> [c EXCEPT !.positions = DictDel(c.positions, node_id)],
               ret |-> None]
         ELSE [c |-> c, ret |-> Some(c.positions[node_id])]

\* the mutant of get_device_name that does not look at the cached name
get_device_name_anonymous(c, node_id) == node_id

get_device_name(c, node_id) ==
    IF node_id \in DOMAIN c.node_names
    THEN ReplaceSpace(c.node_names[node_id]) \o <<"_">> \o node_id
    ELSE node_id

get_hardware_model(c, node_id) ==
    IF node_id \in DOMAIN c.hardware_models
    THEN IF c.hardware_models[node_id] \in DOMAIN HardwareModelNames
         THEN Some(HardwareModelNames[c.hardware_models[node_id]])
         ELSE None
    ELSE None

\* the mutant of cleanup_old that removes nothing
cleanup_old_keeps(c, t) == c

cleanup_old(c, t) ==
    LET to_remove == {n \in DOMAIN c.positions : Expired(c.positions[n], t)}
    IN [c EXCEPT !.positions = [n \in DOMAIN c.positions \ to_remove |->
                                   c.positions[n]]]

\* io = "ok": the file, when it exists, is read; otherwise open() raises
load_cache(c, t, io) ==
    IF ~c.cache_file.exists THEN c
    ELSE IF io # "ok" \/ ~c.cache_file.valid THEN c
    ELSE cleanup_old([c EXCEPT !.positions = c.cache_file.positions,
                               !.node_names = c.cache_file.node_names,
                               !.hardware_models = c.cache_file.hardware_models],
                     t)

\* NodeCache.__init__
NewNodeCache(file, t, io) ==
    load_cache([positions |-> EmptyDict, node_names |-> EmptyDict,
                hardware_models |-> EmptyDict, cache_file |-> file], t, io)

----------------------------------------------------------------------------
(* MeshtasticDecoder.  A payload is the parsed form of the payload bytes:   *)
(* its schema field names the protobuf message the bytes encode, and        *)
(* ParseFromString of another message type on them raises DecodeError.      *)
(* An optional protobuf field is None or Some(value): HasField is # None.   *)

\* position.latitude_i / 1e7
Degrees(i) == <<i, 10000000>>

\* the mutant of EnvironmentReadings that also publishes the voltage
EnvironmentReadingsAndVoltage == <<
    <<"temperature",         "temperature",    "°C">>,
    <<"relative_humidity",   "humidity",       "%">>,
    <<"barometric_pressure", "pressure",       "hPa">>,
    <<"gas_resistance",      "gas_resistance", "MOhm">>,
    <<"iaq",                 "iaq",            "IAQ">>,
    <<"voltage",             "voltage",        "V">> >>

\* the publishes of _handle_telemetry in program order:
\* <<protobuf field, sensor_type, unit>>
EnvironmentReadings == <<
    <<"temperature",         "temperature",    "°C">>,
    <<"relative_humidity",   "humidity",       "%">>,
    <<"barometric_pressure", "pressure",       "hPa">>,
    <<"gas_resistance",      "gas_resistance", "MOhm">>,
    <<"iaq",                 "iaq",            "IAQ">> >>

\* the mutant of AirQualityReadings that reports pm2_5 in another unit
AirQualityReadingsMixedUnits == <<
    <<"pm10_standard",  "pm1_0",          "µg/m³">>,
    <<"pm25_standard",  "pm2_5",          "mg/m³">>,
    <<"pm100_standard", "pm10",           "µg/m³">>,
    <<"co2",            "co2",            "ppm">>,
    <<"pm_voc_idx",     "voc_index",      "index">>,
    <<"pm_nox_idx",     "nox_index",      "index">>,
    <<"pm_temperature", "temperature_pm", "°C">>,
    <<"pm_humidity",    "humidity_pm",    "%">> >>

AirQualityReadings == <<
    <<"pm10_standard",  "pm1_0",          "µg/m³">>,
    <<"pm25_standard",  "pm2_5",          "µg/m³">>,
    <<"pm100_standard", "pm10",           "µg/m³">>,
    <<"co2",            "co2",            "ppm">>,
    <<"pm_voc_idx",     "voc_index",      "index">>,
    <<"pm_nox_idx",     "nox_index",      "index">>,
    <<"pm_temperature", "temperature_pm", "°C">>,
    <<"pm_humidity",    "humidity_pm",    "%">> >>

\* the mutant of PresentReadings that takes a zero value for an absent field
PresentReadingsNonZero(telemetry) ==
    LET present(r) == /\ r[1] \in DOMAIN telemetry.metrics
                      /\ telemetry.metrics[r[1]] # 0
        env == IF telemetry.variant = "environment_metrics"
               THEN SelectSeq(EnvironmentReadings, present) ELSE <<>>
        aq  == IF telemetry.variant = "air_quality_metrics"
               THEN SelectSeq(AirQualityReadings, present) ELSE <<>>
    IN env \o aq

\* the (field, sensor_type, unit) triples whose "if xx.HasField(field)" holds
PresentReadings(telemetry) ==
    LET present(r) == r[1] \in DOMAIN telemetry.metrics
        env == IF telemetry.variant = "environment_metrics"
               THEN SelectSeq(EnvironmentReadings, present) ELSE <<>>
        aq  == IF telemetry.variant = "air_quality_metrics"
               THEN SelectSeq(AirQualityReadings, present) ELSE <<>>
    IN env \o aq

\* the mutant of PublishCall that retains the reading and tags it as a fixed
\* installation when its sender has a known position
PublishCallSited(device_name, sensor_type, value, timestamp, position, unit, hardware_model, rc) ==
    [topic   |-> <<"skytrace", "decoded", "env", device_name, sensor_type>>,
     payload |-> [value             |-> value,
                  timestamp         |-> timestamp,
                  device_id         |-> device_name,
                  latitude          |-> position.latitude,
                  longitude         |-> position.longitude,
                  altitude          |-> position.altitude,
                  location_source   |-> "gps",
                  sensor_model      |-> "MESHTASTIC",
                  board_model       |-> hardware_model,
                  reading_type      |-> sensor_type,
                  unit              |-> unit,
                  deployment_region |-> "ANZ",
                  deployment_type   |-> IF position.latitude = None
                                        THEN "PORTABLE" ELSE "FIXED",
                  transport_type    |-> "LORA"],
     qos     |-> 0,
     retain  |-> position.latitude # None,
     rc      |-> rc]

\* the topic and payload _publish_reading hands to output_client.publish,
\* with the result code rc the client returns
PublishCall(device_name, sensor_type, value, timestamp, position, unit, hardware_model, rc) ==
    [topic   |-> <<"skytrace", "decoded", "env", device_name, sensor_type>>,
     payload |-> [value             |-> value,
                  timestamp         |-> timestamp,
                  device_id         |-> device_name,
                  latitude          |-> position.latitude,
                  longitude         |-> position.longitude,
                  altitude          |-> position.altitude,
                  location_source   |-> "gps",
                  sensor_model      |-> "MESHTASTIC",
                  board_model       |-> hardware_model,
                  reading_type      |-> sensor_type,
                  unit              |-> unit,
                  deployment_region |-> "ANZ",
                  deployment_type   |-> "PORTABLE",
                  transport_type    |-> "LORA"],
     qos     |-> 0,
     retain  |-> FALSE,
     rc      |-> rc]

\* the mutant of PublishRaises in which the success branch logs without error
PublishReturns(rc) == FALSE

\* _publish_reading raises NameError when rc == MQTT_ERR_SUCCESS: the f-string
\* of its logger.info names node_id, which is neither a parameter nor a global
PublishRaises(rc) == rc = MQTT_ERR_SUCCESS

\* the number of _publish_reading calls of one sample with n present
\* readings: reading i is published with result code rcs[i], and the first
\* call that raises ends _handle_telemetry in its except branch
RECURSIVE RunPublishes(_, _, _)
RunPublishes(rcs, i, n) ==
    IF i > n THEN n
    ELSE IF PublishRaises(rcs[i]) THEN i
         ELSE RunPublishes(rcs, i + 1, n)

\* the mutant of NullPosition that reports the origin instead of no location
OriginPosition == [latitude |-> Degrees(0), longitude |-> Degrees(0), altitude |-> 0]

NullPosition == [latitude |-> None, longitude |-> None, altitude |-> None]

\* what a handler gives back: the cache, the publish calls made, the cache
\* getters called, the outcomes of the save_cache calls, and how it ended
Outcome(c, pubs, reads, sv, end) ==
    [c |-> c, publishes |-> pubs, cache_reads |-> reads, saves |-> sv,
     result |-> end]

\* the mutant of _handle_position that caches the default Position when the
\* payload does not parse
_handle_position_lenient(c, node_id, payload, t, io) ==
    IF payload.schema # "position"
    THEN Outcome(update_position(c, node_id, Degrees(0), Degrees(0), None,
                                 None, t, io[1]),
                 <<>>, <<>>, <<io[1]>>, "position")
    ELSE IF payload.latitude_i # None /\ payload.longitude_i # None
         THEN Outcome(update_position(c, node_id,
                                      Degrees(payload.latitude_i[1]),
                                      Degrees(payload.longitude_i[1]),
                                      payload.altitude,
                                      IF payload.time # 0 THEN Some(payload.time)
                                                          ELSE None,
                                      t, io[1]),
                      <<>>, <<>>, <<io[1]>>, "position")
         ELSE Outcome(c, <<>>, <<>>, <<>>, "position")

_handle_position(c, node_id, payload, t, io) ==
    IF payload.schema # "position"
    THEN Outcome(c, <<>>, <<>>, <<>>, "position_error")
    ELSE IF payload.latitude_i # None /\ payload.longitude_i # None
         THEN Outcome(update_position(c, node_id,
                                      Degrees(payload.latitude_i[1]),
                                      Degrees(payload.longitude_i[1]),
                                      payload.altitude,
                                      IF payload.time # 0 THEN Some(payload.time)
                                                          ELSE None,
                                      t, io[1]),
                      <<>>, <<>>, <<io[1]>>, "position")
         ELSE Outcome(c, <<>>, <<>>, <<>>, "position")

\* the mutant of _handle_nodeinfo that stores the long_name of every update,
\* an empty one included
_handle_nodeinfo_erasing(c, node_id, payload, t, io) ==
    IF payload.schema # "user"
    THEN Outcome(c, <<>>, <<>>, <<>>, "nodeinfo_error")
    ELSE LET c1 == update_name(c, node_id, payload.long_name, t, io[1])
         IN IF payload.hw_model # 0
            THEN Outcome(update_hardware(c1, node_id, payload.hw_model, t, io[2]),
                         <<>>, <<>>, <<io[1], io[2]>>, "nodeinfo")
            ELSE Outcome(c1, <<>>, <<>>, <<io[1]>>, "nodeinfo")

_handle_nodeinfo(c, node_id, payload, t, io) ==
    IF payload.schema # "user"
    THEN Outcome(c, <<>>, <<>>, <<>>, "nodeinfo_error")
    ELSE LET named == payload.long_name # <<>>
             c1    == IF named
                      THEN update_name(c, node_id, payload.long_name, t, io[1])
                      ELSE c
             s1    == IF named THEN <<io[1]>> ELSE <<>>
             io2   == io[Len(s1) + 1]
         IN IF payload.hw_model # 0
            THEN Outcome(update_hardware(c1, node_id, payload.hw_model, t, io2),
                         <<>>, <<>>, s1 \o <<io2>>, "nodeinfo")
            ELSE Outcome(c1, <<>>, <<>>, s1, "nodeinfo")

\* the mutant of NonEnvironmental that never skips a sample
NonEnvironmentalNever(has_environmental, has_air_quality) == FALSE

\* "if not has_environmental and not has_air_quality"
NonEnvironmental(has_environmental, has_air_quality) ==
    ~has_environmental /\ ~has_air_quality

_handle_telemetry(c, node_id, payload, rx_time, t, rcs) ==
    IF payload.schema # "telemetry"
    THEN Outcome(c, <<>>, <<>>, <<>>, "telemetry_error")
    ELSE LET has_environmental == payload.variant = "environment_metrics"
             has_air_quality   == payload.variant = "air_quality_metrics"
         IN IF NonEnvironmental(has_environmental, has_air_quality)
            THEN Outcome(c, <<>>, <<>>, <<>>, "telemetry_skipped")
            ELSE LET got            == get_position(c, node_id, t)
                     position       == IF got.ret = None THEN NullPosition
                                       ELSE got.ret[1]
                     device_name    == get_device_name(got.c, node_id)
                     hardware_model == get_hardware_model(got.c, node_id)
                     timestamp      == IntOr(payload.time, rx_time)
                     readings       == PresentReadings(payload)
                     mk(r, rc)      == PublishCall(device_name, r[2],
                                                   payload.metrics[r[1]],
                                                   timestamp, position, r[3],
                                                   hardware_model, rc)
                     calls          == RunPublishes(rcs, 1, Len(readings))
                     pubs           == [i \in 1..calls |->
                                           mk(readings[i], rcs[i])]
                     raised         == \E i \in 1..Len(pubs) :
                                          PublishRaises(pubs[i].rc)
                 IN Outcome(got.c, pubs,
                            <<"get_position", "get_device_name",
                              "get_hardware_model">>,
                            <<>>,
                            IF raised THEN "telemetry_error" ELSE "telemetry")

\* protobuf oneof payload_variant: packet.decoded of a packet that carries
\* packet.encrypted is the default Data message
DefaultData == [portnum |-> UNKNOWN_APP, payload |-> [schema |-> "empty"]]

Decoded(packet) == IF packet.encrypted THEN DefaultData ELSE packet.data

\* the mutant of _on_message that takes the payload of any other port for a
\* position
_on_message_any_port(c, m, t, io, rcs) ==
    IF ~m.valid
    THEN Outcome(c, <<>>, <<>>, <<>>, "error")
    ELSE IF ~m.has_packet
    THEN Outcome(c, <<>>, <<>>, <<>>, "no_packet")
    ELSE LET node_id == NodeId(m.from)
             decoded == Decoded(m)
         IN CASE decoded.portnum = TELEMETRY_APP ->
                     _handle_telemetry(c, node_id, decoded.payload, m.rx_time,
                                       t, rcs)
              [] decoded.portnum = NODEINFO_APP ->
                     _handle_nodeinfo(c, node_id, decoded.payload, t, io)
              [] OTHER -> _handle_position(c, node_id, decoded.payload, t, io)

\* _on_message; m is the parsed form of msg.payload
_on_message(c, m, t, io, rcs) ==
    IF ~m.valid
    THEN Outcome(c, <<>>, <<>>, <<>>, "error")
    ELSE IF ~m.has_packet
    THEN Outcome(c, <<>>, <<>>, <<>>, "no_packet")
    ELSE LET node_id == NodeId(m.from)
             decoded == Decoded(m)
         IN CASE decoded.portnum = POSITION_APP ->
                     _handle_position(c, node_id, decoded.payload, t, io)
              [] decoded.portnum = TELEMETRY_APP ->
                     _handle_telemetry(c, node_id, decoded.payload, m.rx_time,
                                       t, rcs)
              [] decoded.portnum = NODEINFO_APP ->
                     _handle_nodeinfo(c, node_id, decoded.payload, t, io)
              [] OTHER -> Outcome(c, <<>>, <<>>, <<>>, "ignored")

----------------------------------------------------------------------------
(* Bounds and input sets *)

MaxMessages == 3          \* deliveries in a run of Spec
MaxTicks == 1             \* clock advances in a run of Spec
MaxCacheMessages == 3     \* deliveries in a run of SpecCache
MaxCacheTicks == 3        \* clock advances in a run of SpecCache
MaxRestarts == 1          \* process restarts in a run of SpecCache
MaxIOFailures == 1        \* failed file operations in a run of SpecCache

\* wall-clock readings and sender addresses (0x1a2b3c4d and 0x10) of the runs
Times == [start |-> 1700000000, rx |-> 1699999000, pos |-> 1699990000,
          tel |-> 1699995000]
StartTime == Times.start
RxTime == Times.rx
PosTime == Times.pos
TelTime == Times.tel

Addrs == <<439041101, 16>>
NodeAAddr == Addrs[1]
NodeBAddr == Addrs[2]

IO == {"ok", "open_failed", "write_failed"}
AllOk == <<"ok", "ok">>
RCs == {MQTT_ERR_SUCCESS, MQTT_ERR_NO_CONN}

\* the outcomes of the (at most two) save_cache calls of one message, given
\* how many file operations may still fail
IOSeqs(budget) ==
    {io \in [1..2 -> IO] : Cardinality({i \in 1..2 : io[i] # "ok"}) <= budget}

NodeA == <<"N", "o", "d", "e", " ", "A">>
GardenSensor == <<"G", "a", "r", "d", "e", "n", " ",
                  "S", "e", "n", "s", "o", "r">>

FullPosition ==
    [schema |-> "position", latitude_i |-> Some(-368480000),
     longitude_i |-> Some(1747630000), altitude |-> Some(42), time |-> PosTime]

ZeroPosition ==
    [schema |-> "position", latitude_i |-> Some(0), longitude_i |-> Some(0),
     altitude |-> None, time |-> 0]

PositionPayloads ==
    { FullPosition, ZeroPosition,
      [schema |-> "position", latitude_i |-> Some(-368480000),
       longitude_i |-> None, altitude |-> Some(42), time |-> 0] }

\* a long_name with a tab in it
TabbedName == <<"A", "\t", "B">>

GardenUser == [schema |-> "user", long_name |-> GardenSensor, hw_model |-> 43]

UserPayloads ==
    { GardenUser,
      [schema |-> "user", long_name |-> NodeA, hw_model |-> 0],
      [schema |-> "user", long_name |-> TabbedName, hw_model |-> 0],
      [schema |-> "user", long_name |-> <<>>, hw_model |-> 9],
      [schema |-> "user", long_name |-> <<>>, hw_model |-> 0] }

TempHumidity == ("temperature" :> 215) @@ ("relative_humidity" :> 550)

EnvironmentSamples ==
    { EmptyDict,
      ("voltage" :> 4) @@ ("current" :> 1),
      "temperature" :> 0,
      TempHumidity,
      ("barometric_pressure" :> 1013) @@ ("gas_resistance" :> 12)
          @@ ("iaq" :> 50) @@ ("voltage" :> 4) }

AirQualitySamples ==
    { ("pm10_standard" :> 3) @@ ("pm25_standard" :> 0)
          @@ ("pm100_standard" :> 9),
      ("co2" :> 415) @@ ("pm_voc_idx" :> 100) @@ ("pm_nox_idx" :> 1),
      ("pm_temperature" :> 20) @@ ("pm_humidity" :> 40) }

DeviceSamples ==
    { ("battery_level" :> 90) @@ ("voltage" :> 4) @@ ("uptime_seconds" :> 600) }

TempHumidityTelemetry ==
    [schema |-> "telemetry", time |-> TelTime,
     variant |-> "environment_metrics", metrics |-> TempHumidity]

TelemetryPayloads ==
    { [schema |-> "telemetry", time |-> 0, variant |-> "environment_metrics",
       metrics |-> f] : f \in EnvironmentSamples }
    \cup
    { [schema |-> "telemetry", time |-> 0, variant |-> "air_quality_metrics",
       metrics |-> f] : f \in AirQualitySamples }
    \cup
    { [schema |-> "telemetry", time |-> TelTime, variant |-> "device_metrics",
       metrics |-> f] : f \in DeviceSamples }
    \cup
    { [schema |-> "telemetry", time |-> TelTime, variant |-> "none",
       metrics |-> EmptyDict],
      TempHumidityTelemetry }

Garbage == [schema |-> "garbage"]

DataMessages ==
    { [portnum |-> POSITION_APP, payload |-> p] :
        p \in PositionPayloads \cup {Garbage} }
    \cup
    { [portnum |-> NODEINFO_APP, payload |-> p] :
        p \in UserPayloads \cup {Garbage} }
    \cup
    { [portnum |-> TELEMETRY_APP, payload |-> p] :
        p \in TelemetryPayloads \cup {Garbage} }
    \cup
    { [portnum |-> TEXT_MESSAGE_APP, payload |-> p] :
        p \in {Garbage, FullPosition, TempHumidityTelemetry} }
    \cup
    { [portnum |-> ROUTING_APP, payload |-> GardenUser] }

\* the Data messages the second node sends, and the ones that are also
\* delivered encrypted with the channel key
CoreDataMessages ==
    { [portnum |-> POSITION_APP, payload |-> FullPosition],
      [portnum |-> NODEINFO_APP, payload |-> GardenUser],
      [portnum |-> TELEMETRY_APP, payload |-> TempHumidityTelemetry] }

NoMsg == [valid |-> FALSE, has_packet |-> FALSE, from |-> 0, rx_time |-> 0,
          encrypted |-> FALSE, data |-> DefaultData]

Packet(f, e, d) ==
    [valid |-> TRUE, has_packet |-> TRUE, from |-> f, rx_time |-> RxTime,
     encrypted |-> e, data |-> d]

\* the deliveries of Spec
Messages ==
    { NoMsg, [NoMsg EXCEPT !.valid = TRUE] }
    \cup { Packet(NodeAAddr, FALSE, d) : d \in DataMessages }
    \cup { Packet(NodeBAddr, FALSE, d) : d \in CoreDataMessages }
    \cup { Packet(NodeAAddr, TRUE, d) : d \in CoreDataMessages }

\* the deliveries of SpecCache
CacheMessages ==
    { Packet(NodeAAddr, FALSE, d) : d \in CoreDataMessages }
    \cup { Packet(NodeBAddr, FALSE, d) :
             d \in {[portnum |-> POSITION_APP, payload |-> ZeroPosition],
                    [portnum |-> TELEMETRY_APP,
                     payload |-> TempHumidityTelemetry]} }

\* the result codes the transport may give to the publishes of message m
RcSeqs(m) ==
    IF m.valid /\ m.has_packet /\ Decoded(m).portnum = TELEMETRY_APP
       /\ Decoded(m).payload.schema = "telemetry"
    THEN [1..Len(PresentReadings(Decoded(m).payload)) -> RCs]
    ELSE {<<>>}

\* the save_cache outcomes to consider for message m: only position and
\* identity messages save
IOSeqsFor(m, budget) ==
    IF m.valid /\ m.has_packet
       /\ Decoded(m).portnum \in {POSITION_APP, NODEINFO_APP}
    THEN IOSeqs(budget) ELSE {AllOk}

----------------------------------------------------------------------------
(* The decoder process *)

Cache == [positions |-> positions, node_names |-> node_names,
          hardware_models |-> hardware_models, cache_file |-> cache_file]

MonitorIdle ==
    /\ channel_key = <<1>>
    /\ mon_count = 0
    /\ mon_packet = [id |-> 0, from |-> 0, encrypted |-> <<>>,
                     decoded |-> [portnum |-> 0, payload |-> <<>>]]
    /\ mon_key = <<>>
    /\ mon_decrypted = None
    /\ mon_dispatch = "none"

\* no pure function has been called
NoCall == [op |-> "none"]

\* connect() has connected both clients and started the output client's
\* network thread, and run() has entered input_client.loop_forever()
Running ==
    /\ pc = "loop_forever"
    /\ input_client = "connected"
    /\ output_client = "connected"
    /\ output_loop = "running"
    /\ loop_iterations = 0

\* MeshtasticDecoder.__init__ with no snapshot file on disk, connect() and
\* the start of run()
Init ==
    /\ positions = EmptyDict
    /\ node_names = EmptyDict
    /\ hardware_models = EmptyDict
    /\ cache_file = NoFile
    /\ message_count = 0
    /\ now = StartTime
    /\ ticks = 0
    /\ io_failures = 0
    /\ restarts = 0
    /\ delivered = 0
    /\ saves = <<>>
    /\ msg = NoMsg
    /\ publishes = <<>>
    /\ cache_reads = <<>>
    /\ result = "init"
    /\ Running
    /\ call = NoCall
    /\ MonitorIdle

\* the mutant of OnMessage that counts only the messages that carry a packet
OnMessageCountingPackets(m, io, rcs) ==
    /\ pc = "loop_forever"
    /\ \E out \in {_on_message(Cache, m, now, io, rcs)} :
          /\ positions' = out.c.positions
          /\ node_names' = out.c.node_names
          /\ hardware_models' = out.c.hardware_models
          /\ cache_file' = out.c.cache_file
          /\ publishes' = out.publishes
          /\ cache_reads' = out.cache_reads
          /\ saves' = out.saves
          /\ io_failures' = io_failures
                 + Cardinality({i \in 1..Len(out.saves) : out.saves[i] # "ok"})
          /\ result' = out.result
    /\ message_count' = IF m.valid /\ m.has_packet THEN message_count + 1
                                                   ELSE message_count
    /\ delivered' = delivered + 1
    /\ msg' = m
    /\ UNCHANGED <<now, ticks, restarts>>
    /\ UNCHANGED runVars
    /\ UNCHANGED call
    /\ UNCHANGED monitorVars

\* the input client's loop delivers message m to _on_message
OnMessage(m, io, rcs) ==
    /\ pc = "loop_forever"
    /\ \E out \in {_on_message(Cache, m, now, io, rcs)} :
          /\ positions' = out.c.positions
          /\ node_names' = out.c.node_names
          /\ hardware_models' = out.c.hardware_models
          /\ cache_file' = out.c.cache_file
          /\ publishes' = out.publishes
          /\ cache_reads' = out.cache_reads
          /\ saves' = out.saves
          /\ io_failures' = io_failures
                 + Cardinality({i \in 1..Len(out.saves) : out.saves[i] # "ok"})
          /\ result' = out.result
    /\ message_count' = message_count + 1
    /\ delivered' = delivered + 1
    /\ msg' = m
    /\ UNCHANGED <<now, ticks, restarts>>
    /\ UNCHANGED runVars
    /\ UNCHANGED call
    /\ UNCHANGED monitorVars

\* the wall clock advances between two deliveries
Tick(step) ==
    /\ now' = now + step
    /\ ticks' = ticks + 1
    /\ msg' = NoMsg
    /\ publishes' = <<>>
    /\ cache_reads' = <<>>
    /\ saves' = <<>>
    /\ result' = "tick"
    /\ UNCHANGED <<positions, node_names, hardware_models, cache_file,
                   message_count, delivered, io_failures, restarts>>
    /\ UNCHANGED runVars
    /\ UNCHANGED call
    /\ UNCHANGED monitorVars

\* the process is started again: MeshtasticDecoder.__init__ builds a new
\* NodeCache, which loads the snapshot file, and connect() and run() follow
Restart(io) ==
    /\ \E c \in {NewNodeCache(cache_file, now, io)} :
          /\ positions' = c.positions
          /\ node_names' = c.node_names
          /\ hardware_models' = c.hardware_models
    /\ message_count' = 0
    /\ restarts' = restarts + 1
    /\ io_failures' = IF io = "ok" THEN io_failures ELSE io_failures + 1
    /\ msg' = NoMsg
    /\ publishes' = <<>>
    /\ cache_reads' = <<>>
    /\ saves' = <<>>
    /\ result' = "load_cache"
    /\ pc' = "loop_forever"
    /\ input_client' = "connected"
    /\ output_client' = "connected"
    /\ output_loop' = "running"
    /\ UNCHANGED <<cache_file, now, ticks, delivered, loop_iterations>>
    /\ UNCHANGED call
    /\ UNCHANGED monitorVars

\* Spec: deliveries of every kind of message, the file system working
Deliver ==
    /\ delivered < MaxMessages
    /\ \E m \in Messages : \E rcs \in RcSeqs(m) : OnMessage(m, AllOk, rcs)

Expire ==
    /\ ticks < MaxTicks
    /\ Tick(max_age + 1)

Next ==
    \/ Deliver
    \/ Expire

Spec == Init /\ [][Next]_vars

\* SpecCache: positions, identities and telemetry of two nodes, with the
\* clock around the TTL, process restarts and failing file operations
DeliverCache ==
    /\ delivered < MaxCacheMessages
    /\ \E m \in CacheMessages :
         \E io \in IOSeqsFor(m, MaxIOFailures - io_failures) :
           \E rcs \in RcSeqs(m) : OnMessage(m, io, rcs)

Clock ==
    /\ ticks < MaxCacheTicks
    /\ \E step \in {1, max_age - 1} : Tick(step)

Reload ==
    /\ restarts < MaxRestarts
    /\ \E io \in {"ok", "open_failed"} :
         /\ io = "ok" \/ io_failures < MaxIOFailures
         /\ Restart(io)

NextCache ==
    \/ DeliverCache
    \/ Clock
    \/ Reload

SpecCache == Init /\ [][NextCache]_vars

\* SpecRun: run() from the delivery loop to the end of cleanup(), next to the
\* network thread of the output client
MaxRunMessages == 2       \* deliveries in a run of SpecRun
MaxLoopIterations == 2    \* iterations of the output network thread

DeliverRun ==
    /\ delivered < MaxRunMessages
    /\ \E m \in CacheMessages : \E rcs \in RcSeqs(m) : OnMessage(m, AllOk, rcs)

\* the mutant of OutputLoop in which the network thread clears the positions
OutputLoopClearing ==
    /\ output_loop = "running"
    /\ loop_iterations < MaxLoopIterations
    /\ loop_iterations' = loop_iterations + 1
    /\ positions' = EmptyDict
    /\ UNCHANGED <<node_names, hardware_models, cache_file,
                   message_count, now, ticks, io_failures, restarts, delivered,
                   saves, msg, publishes, cache_reads, result>>
    /\ UNCHANGED <<pc, input_client, output_client, output_loop>>
    /\ UNCHANGED call
    /\ UNCHANGED monitorVars

\* one iteration of the thread started by output_client.loop_start(): it
\* moves bytes between the output client and its socket; the client has no
\* callback registered, so no code of the decoder runs on this thread
OutputLoop ==
    /\ output_loop = "running"
    /\ loop_iterations < MaxLoopIterations
    /\ loop_iterations' = loop_iterations + 1
    /\ UNCHANGED <<positions, node_names, hardware_models, cache_file,
                   message_count, now, ticks, io_failures, restarts, delivered,
                   saves, msg, publishes, cache_reads, result>>
    /\ UNCHANGED <<pc, input_client, output_client, output_loop>>
    /\ UNCHANGED call
    /\ UNCHANGED monitorVars

\* the mutant of KeyboardInterrupt whose cleanup starts with the disconnects
KeyboardInterruptUnsaved ==
    /\ pc = "loop_forever"
    /\ pc' = "input_disconnect"
    /\ UNCHANGED <<positions, node_names, hardware_models, cache_file,
                   message_count, now, ticks, io_failures, restarts, delivered,
                   saves, msg, publishes, cache_reads, result>>
    /\ UNCHANGED <<input_client, output_client, output_loop, loop_iterations>>
    /\ UNCHANGED call
    /\ UNCHANGED monitorVars

\* input_client.loop_forever() raises KeyboardInterrupt, run() enters its
\* except branch
KeyboardInterrupt ==
    /\ pc = "loop_forever"
    /\ pc' = "cleanup"
    /\ UNCHANGED <<positions, node_names, hardware_models, cache_file,
                   message_count, now, ticks, io_failures, restarts, delivered,
                   saves, msg, publishes, cache_reads, result>>
    /\ UNCHANGED <<input_client, output_client, output_loop, loop_iterations>>
    /\ UNCHANGED call
    /\ UNCHANGED monitorVars

\* cleanup(): self.cache.save_cache()
CleanupSave(io) ==
    /\ pc = "cleanup"
    /\ cache_file' = save_cache(Cache, now, io).cache_file
    /\ saves' = <<io>>
    /\ io_failures' = IF io = "ok" THEN io_failures ELSE io_failures + 1
    /\ result' = "cleanup"
    /\ pc' = "input_disconnect"
    /\ UNCHANGED <<positions, node_names, hardware_models, message_count, now,
                   ticks, restarts, delivered, msg, publishes, cache_reads>>
    /\ UNCHANGED <<input_client, output_client, output_loop, loop_iterations>>
    /\ UNCHANGED call
    /\ UNCHANGED monitorVars

\* cleanup(): self.input_client.disconnect()
InputDisconnect ==
    /\ pc = "input_disconnect"
    /\ input_client' = "disconnected"
    /\ pc' = "output_loop_stop"
    /\ UNCHANGED <<positions, node_names, hardware_models, cache_file,
                   message_count, now, ticks, io_failures, restarts, delivered,
                   saves, msg, publishes, cache_reads, result>>
    /\ UNCHANGED <<output_client, output_loop, loop_iterations>>
    /\ UNCHANGED call
    /\ UNCHANGED monitorVars

\* cleanup(): self.output_client.loop_stop()
OutputLoopStop ==
    /\ pc = "output_loop_stop"
    /\ output_loop' = "stopped"
    /\ pc' = "output_disconnect"
    /\ UNCHANGED <<positions, node_names, hardware_models, cache_file,
                   message_count, now, ticks, io_failures, restarts, delivered,
                   saves, msg, publishes, cache_reads, result>>
    /\ UNCHANGED <<input_client, output_client, loop_iterations>>
    /\ UNCHANGED call
    /\ UNCHANGED monitorVars

\* cleanup(): self.output_client.disconnect(); run() returns
OutputDisconnect ==
    /\ pc = "output_disconnect"
    /\ output_client' = "disconnected"
    /\ pc' = "done"
    /\ UNCHANGED <<positions, node_names, hardware_models, cache_file,
                   message_count, now, ticks, io_failures, restarts, delivered,
                   saves, msg, publishes, cache_reads, result>>
    /\ UNCHANGED <<input_client, output_loop, loop_iterations>>
    /\ UNCHANGED call
    /\ UNCHANGED monitorVars

\* the statements of cleanup()
Cleanup ==
    \/ \E io \in IO : CleanupSave(io)
    \/ InputDisconnect
    \/ OutputLoopStop
    \/ OutputDisconnect

NextRun ==
    \/ DeliverRun
    \/ OutputLoop
    \/ KeyboardInterrupt
    \/ Cleanup

\* cleanup() is straight-line code on the main thread: once entered, each
\* of its statements is executed
SpecRun == Init /\ [][NextRun]_vars /\ WF_vars(Cleanup)

----------------------------------------------------------------------------
(* MeshtasticMonitor: decryption and routing of a packet.                   *)

\* n.to_bytes(len, 'little')
RECURSIVE ToBytesLE(_, _)
ToBytesLE(n, len) ==
    IF len = 0 THEN <<>> ELSE <<n % 256>> \o ToBytesLE(n \div 256, len - 1)

\* b'\x00' * n
Zeros(n) == [i \in 1..n |-> 0]

\* the mutant of Nonce that packs both values into 4 bytes each and pads
NoncePacked(packet_id, from_node) ==
    ToBytesLE(packet_id, 4) \o ToBytesLE(from_node, 4) \o Zeros(8)

\* nonce = packet_id.to_bytes(8, 'little') + from_node.to_bytes(8, 'little')
Nonce(packet_id, from_node) == ToBytesLE(packet_id, 8) \o ToBytesLE(from_node, 8)

\* the mutant of NormalizeKey that cuts a longer key down to 32 bytes
NormalizeKeyTruncating(key) ==
    IF Len(key) = 1 THEN <<1>> \o Zeros(15)
    ELSE IF Len(key) < 16 THEN key \o Zeros(16 - Len(key))
    ELSE IF Len(key) < 32 THEN key \o Zeros(32 - Len(key))
    ELSE SubSeq(key, 1, 32)

\* "Pad key to 16 bytes (128 bits) or 32 bytes (256 bits)"
NormalizeKey(key) ==
    IF Len(key) = 1 THEN <<1>> \o Zeros(15)
    ELSE IF Len(key) < 16 THEN key \o Zeros(16 - Len(key))
    ELSE IF Len(key) < 32 THEN key \o Zeros(32 - Len(key))
    ELSE key

\* algorithms.AES(key) with modes.CTR accepts 128, 192 and 256 bit keys and
\* raises ValueError for any other key
AESKeyAccepted(key) == Len(key) \in {16, 24, 32}

\* bitwise a ^ b
RECURSIVE Xor(_, _)
Xor(a, b) ==
    IF a = 0 THEN b
    ELSE IF b = 0 THEN a
    ELSE ((a + b) % 2) + 2 * Xor(a \div 2, b \div 2)

RECURSIVE SumSeq(_, _)
SumSeq(q, i) == IF i > Len(q) THEN 0 ELSE (i * q[i] + SumSeq(q, i + 1)) % 251

\* stand-in for byte o of the AES encryption of counter block nonce + j
\* under key: a fixed function of (key, nonce, j, o)
BlockCipherByte(key, nonce, j, o) ==
    (7 * SumSeq(key, 1) + 13 * SumSeq(nonce, 1) + 29 * j + 31 * o + Len(key))
        % 256

\* counter mode: byte i of the data is xor-ed with byte (i-1) % 16 of the
\* encryption of counter block nonce + (i-1) \div 16; encrypting and
\* decrypting are the same operation
CTR(key, nonce, data) ==
    [i \in 1..Len(data) |->
        Xor(data[i], BlockCipherByte(key, nonce, (i - 1) \div 16, (i - 1) % 16))]

\* the mutant of _decrypt_packet whose nonce starts with the sender address
_decrypt_packet_swapped(key0, packet_id, from_node, encrypted_payload) ==
    LET key == NormalizeKey(key0)
    IN IF AESKeyAccepted(key)
       THEN [key |-> key,
             ret |-> Some(CTR(key, Nonce(from_node, packet_id),
                              encrypted_payload))]
       ELSE [key |-> key, ret |-> None]

\* _decrypt_packet: the key handed to the cipher and the returned value
_decrypt_packet(key0, packet_id, from_node, encrypted_payload) ==
    LET key == NormalizeKey(key0)
    IN IF AESKeyAccepted(key)
       THEN [key |-> key,
             ret |-> Some(CTR(key, Nonce(packet_id, from_node),
                              encrypted_payload))]
       ELSE [key |-> key, ret |-> None]

\* mesh_pb2.Data wire format, for port numbers below 128 and payloads shorter
\* than 128 bytes: tag 0x08, portnum, then optionally tag 0x12, length, payload
EncodeData(portnum, payload) ==
    <<8, portnum>> \o (IF payload = <<>> THEN <<>>
                       ELSE <<18, Len(payload)>> \o payload)

DataParses(bytes) ==
    \/ bytes = <<>>
    \/ Len(bytes) = 2 /\ bytes[1] = 8 /\ bytes[2] < 128
    \/ /\ Len(bytes) >= 4
       /\ bytes[1] = 8 /\ bytes[2] < 128
       /\ bytes[3] = 18 /\ bytes[4] = Len(bytes) - 4

ParseData(bytes) ==
    IF bytes = <<>> THEN [portnum |-> UNKNOWN_APP, payload |-> <<>>]
    ELSE [portnum |-> bytes[2],
          payload |-> IF Len(bytes) > 4 THEN SubSeq(bytes, 5, Len(bytes))
                      ELSE <<>>]

\* a sub-message parser raises DecodeError on payload bytes that start with
\* an invalid tag
PayloadParses(payload) == payload = <<>> \/ payload[1] # 255

\* the port dispatch shared by the encrypted and the plain path
Dispatch(data) ==
    CASE data.portnum = TELEMETRY_APP    -> "telemetry"
      [] data.portnum = POSITION_APP     -> "position"
      [] data.portnum = NODEINFO_APP     -> "nodeinfo"
      [] data.portnum = TEXT_MESSAGE_APP -> "text"
      [] OTHER                           -> "other"

\* _decode_service_envelope for an envelope with a packet: the key used, the
\* value _decrypt_packet returned, and what was decoded or printed
_decode_service_envelope(key0, packet) ==
    IF packet.encrypted # <<>>
    THEN LET d == _decrypt_packet(key0, packet.id, packet.from,
                                  packet.encrypted)
         IN IF d.ret # None /\ d.ret[1] # <<>>
            THEN IF DataParses(d.ret[1])
                    /\ (Dispatch(ParseData(d.ret[1])) \in {"text", "other"}
                        \/ Dispatch(ParseData(d.ret[1])) = "nodeinfo"
                        \/ PayloadParses(ParseData(d.ret[1]).payload))
                 THEN [key |-> d.key, decrypted |-> d.ret,
                       dispatch |-> Dispatch(ParseData(d.ret[1]))]
                 ELSE [key |-> d.key, decrypted |-> d.ret, dispatch |-> "raw"]
            ELSE [key |-> d.key, decrypted |-> d.ret, dispatch |-> "none"]
    ELSE IF packet.decoded.portnum # 0
         THEN [key |-> <<>>, decrypted |-> None,
               dispatch |-> IF Dispatch(packet.decoded) \in
                                  {"text", "other", "nodeinfo"}
                               \/ PayloadParses(packet.decoded.payload)
                            THEN Dispatch(packet.decoded) ELSE "failed"]
         ELSE [key |-> <<>>, decrypted |-> None, dispatch |-> "none"]

MaxKeyLen == 34
KeyFills == {1, 2}

\* the configured channel keys: length n, bytes fill, fill + 1, ...
KeyOf(n, fill) == [i \in 1..n |-> (fill + i - 1) % 256]
Keys == {KeyOf(n, fill) : n \in 1..MaxKeyLen, fill \in KeyFills}

PacketIds == {1, 305419896}

Plaintexts ==
    { EncodeData(POSITION_APP, <<13, 7>>),
      EncodeData(TELEMETRY_APP, <<255>>),
      EncodeData(TEXT_MESSAGE_APP, <<104, 105>>) }

PlainData(bytes) == ParseData(bytes)

\* a ciphertext that lost its last byte on the way
Truncated(bytes) == SubSeq(bytes, 1, Len(bytes) - 1)

\* packets as the monitor sees them: encrypted by a sender that holds the
\* key sender_key (whole, or truncated in transit), or carrying a decoded Data
\* message
MonitorPackets ==
    { [id |-> i, from |-> NodeAAddr,
       encrypted |-> CTR(k, Nonce(i, NodeAAddr), p),
       decoded |-> [portnum |-> UNKNOWN_APP, payload |-> <<>>]] :
        i \in PacketIds, p \in Plaintexts,
        k \in {NormalizeKey(<<1>>), KeyOf(16, 1), KeyOf(32, 2)} }
    \cup
    { [id |-> 1, from |-> NodeAAddr,
       encrypted |-> Truncated(CTR(NormalizeKey(<<1>>), Nonce(1, NodeAAddr), p)),
       decoded |-> [portnum |-> UNKNOWN_APP, payload |-> <<>>]] :
        p \in Plaintexts }
    \cup
    { [id |-> 1, from |-> NodeBAddr, encrypted |-> <<>>,
       decoded |-> PlainData(p)] : p \in Plaintexts \cup {<<>>} }

NoPacket == [id |-> 0, from |-> 0, encrypted |-> <<>>,
             decoded |-> [portnum |-> UNKNOWN_APP, payload |-> <<>>]]

\* MeshtasticMonitor.__init__ with one of the channel keys; the decoder
\* process is not part of this specification
InitMonitor ==
    /\ positions = EmptyDict
    /\ node_names = EmptyDict
    /\ hardware_models = EmptyDict
    /\ cache_file = NoFile
    /\ message_count = 0
    /\ now = StartTime
    /\ ticks = 0
    /\ io_failures = 0
    /\ restarts = 0
    /\ delivered = 0
    /\ saves = <<>>
    /\ msg = NoMsg
    /\ publishes = <<>>
    /\ cache_reads = <<>>
    /\ result = "init"
    /\ Running
    /\ call = NoCall
    /\ channel_key \in Keys
    /\ mon_count = 0
    /\ mon_packet = NoPacket
    /\ mon_key = <<>>
    /\ mon_decrypted = None
    /\ mon_dispatch = "none"

MaxMonitorMessages == 2

\* the mutant of MonitorOnMessage that keeps the padded key as channel key
MonitorOnMessageRekeying(packet) ==
    /\ mon_count < MaxMonitorMessages
    /\ mon_count' = mon_count + 1
    /\ mon_packet' = packet
    /\ \E out \in {_decode_service_envelope(channel_key, packet)} :
          /\ mon_key' = out.key
          /\ mon_decrypted' = out.decrypted
          /\ mon_dispatch' = out.dispatch
          /\ channel_key' = IF out.key # <<>> THEN out.key ELSE channel_key
    /\ UNCHANGED decoderVars
    /\ UNCHANGED call

\* MeshtasticMonitor._on_message for an envelope that carries packet
MonitorOnMessage(packet) ==
    /\ mon_count < MaxMonitorMessages
    /\ mon_count' = mon_count + 1
    /\ mon_packet' = packet
    /\ \E out \in {_decode_service_envelope(channel_key, packet)} :
          /\ mon_key' = out.key
          /\ mon_decrypted' = out.decrypted
          /\ mon_dispatch' = out.dispatch
    /\ UNCHANGED channel_key
    /\ UNCHANGED decoderVars
    /\ UNCHANGED call

NextMonitor == \E packet \in MonitorPackets : MonitorOnMessage(packet)

SpecMonitor == InitMonitor /\ [][NextMonitor]_vars

----------------------------------------------------------------------------
(* The pure functions, called on their own, once per run: node_id          *)
(* formatting with the cache keyed by it, the nonce, and _decrypt_packet on *)
(* what a sender encrypted.                                                 *)

\* sender addresses and packet ids: fixed32 values, small ones, ones that
\* share their low or high digits, and the largest below 2^31
Words32 == {0, 1, 16, 255, 256, 65536, 1048592, 305419896, 439041101,
            2147483647}

\* the cache after a position, a name and a hardware model of the node with
\* address a, all tagged k, were stored in cache c
Store(c, a, k) ==
    update_hardware(
        update_name(
            update_position(c, NodeId(a), Degrees(k), Degrees(k), Some(k),
                            None, StartTime, "ok"),
            NodeId(a), <<"n", HexDigits[k + 1]>>, StartTime, "ok"),
        NodeId(a), k, StartTime, "ok")

\* node_id is formatted for the addresses a and b, and the entries of a and
\* then of b are stored in an empty cache
CallNodeId(a, b) ==
    /\ call = NoCall
    /\ call' = [op    |-> "node_id",
                args  |-> <<a, b>>,
                ret   |-> <<NodeId(a), NodeId(b)>>,
                cache |-> Store(Store(NewNodeCache(NoFile, StartTime, "ok"),
                                      a, 1), b, 2)]
    /\ UNCHANGED decoderVars
    /\ UNCHANGED monitorVars

\* the nonces of two packets
CallNonce(id1, from1, id2, from2) ==
    /\ call = NoCall
    /\ call' = [op   |-> "nonce",
                args |-> <<id1, from1, id2, from2>>,
                ret  |-> <<Nonce(id1, from1), Nonce(id2, from2)>>]
    /\ UNCHANGED decoderVars
    /\ UNCHANGED monitorVars

\* Meshtastic's packet encryption on the sending node: AES-CTR under the
\* channel key, the counter block starting as the packet id in 8 bytes and
\* the sender address in 8 bytes, both little-endian
SenderEncrypt(key, packet_id, from_node, plain) ==
    CTR(key, ToBytesLE(packet_id, 8) \o ToBytesLE(from_node, 8), plain)

\* _decrypt_packet on the encryption of plain under the normalized key
CallDecrypt(key0, packet_id, from_node, plain) ==
    /\ call = NoCall
    /\ call' = [op   |-> "decrypt",
                args |-> <<key0, packet_id, from_node, plain>>,
                ret  |-> _decrypt_packet(key0, packet_id, from_node,
                             SenderEncrypt(NormalizeKey(key0), packet_id,
                                           from_node, plain)).ret]
    /\ UNCHANGED decoderVars
    /\ UNCHANGED monitorVars

NextPure ==
    \/ \E a, b \in Words32 : CallNodeId(a, b)
    \/ \E id1, id2 \in {1, 256, 305419896, 2147483647} :
         \E from1, from2 \in {1, 256, 439041101} :
           CallNonce(id1, from1, id2, from2)
    \/ \E key0 \in Keys, packet_id \in PacketIds,
          plain \in Plaintexts \cup {<<>>} :
         CallDecrypt(key0, packet_id, NodeAAddr, plain)

SpecPure == Init /\ [][NextPure]_vars

----------------------------------------------------------------------------
(* Properties *)

\* message m reached _handle_telemetry and parsed as a Telemetry message
Sample(m) ==
    /\ m.valid /\ m.has_packet
    /\ Decoded(m).portnum = TELEMETRY_APP
    /\ Decoded(m).payload.schema = "telemetry"

\* the sample carries environment or air-quality metrics
Qualifying(m) ==
    /\ Sample(m)
    /\ Decoded(m).payload.variant \in
           {"environment_metrics", "air_quality_metrics"}

\* the protobuf fields that are environmental or air-quality readings, and
\* the metric names readings are published under
QualifyingFields ==
    {"temperature", "relative_humidity", "barometric_pressure",
     "gas_resistance", "iaq", "pm10_standard", "pm25_standard",
     "pm100_standard", "co2", "pm_voc_idx", "pm_nox_idx", "pm_temperature",
     "pm_humidity"}

QualifyingNames ==
    {"temperature", "humidity", "pressure", "gas_resistance", "iaq", "pm1_0",
     "pm2_5", "pm10", "co2", "voc_index", "nox_index", "temperature_pm",
     "humidity_pm"}

PresentQualifying(m) == DOMAIN Decoded(m).payload.metrics \cap QualifyingFields

AllAccepted ==
    \A i \in 1..Len(publishes) : publishes[i].rc = MQTT_ERR_SUCCESS

PublishedNames == {publishes[i].payload.reading_type : i \in 1..Len(publishes)}

Sender == NodeId(msg.from)

\* C1: a qualifying sample with k present qualifying metrics, all of whose
\* publishes the transport accepted, was published as exactly k readings
\* with k different metric names
C1_OnePublishPerMetric ==
    (Qualifying(msg) /\ AllAccepted) =>
        /\ Len(publishes) = Cardinality(PresentQualifying(msg))
        /\ Cardinality(PublishedNames) = Len(publishes)

\* C2: an encrypted position packet has updated the sender's cached position,
\* an encrypted identity packet the sender's cached name, and an encrypted
\* telemetry packet has reached the correlator and been published, as the
\* same payload does when it arrives unencrypted
C2_EncryptedRoutedLikePlain ==
    (msg.valid /\ msg.has_packet /\ msg.encrypted) =>
        /\ (msg.data.portnum = POSITION_APP /\ msg.data.payload = FullPosition)
               => /\ Sender \in DOMAIN positions
                  /\ positions[Sender].latitude
                         = Degrees(FullPosition.latitude_i[1])
        /\ (msg.data.portnum = NODEINFO_APP /\ msg.data.payload = GardenUser)
               => /\ Sender \in DOMAIN node_names
                  /\ node_names[Sender] = GardenSensor
        /\ (msg.data.portnum = TELEMETRY_APP
               /\ msg.data.payload = TempHumidityTelemetry)
               => /\ cache_reads # <<>>
                  /\ publishes # <<>>

Decrypting == mon_count > 0 /\ mon_packet.encrypted # <<>>

\* C3: a channel key of exactly 16 or exactly 32 bytes is handed to the
\* cipher unchanged
C3_Key16And32Unchanged ==
    (Decrypting /\ Len(channel_key) \in {16, 32}) => mon_key = channel_key

\* C4: a key of 1..15 bytes is handed to the cipher as the key followed by
\* zero bytes up to 16 bytes, a key of 17..31 bytes as the key followed by
\* zero bytes up to 32 bytes
C4_KeyZeroPadded ==
    /\ (Decrypting /\ Len(channel_key) \in 1..15)
           => mon_key = channel_key \o Zeros(16 - Len(channel_key))
    /\ (Decrypting /\ Len(channel_key) \in 17..31)
           => mon_key = channel_key \o Zeros(32 - Len(channel_key))

\* C5: with a channel key longer than 32 bytes _decrypt_packet returns its
\* failure result, the key is not shortened, and no sub-decoder runs
C5_LongKeyFails ==
    (Decrypting /\ Len(channel_key) > 32) =>
        /\ mon_decrypted = None
        /\ mon_dispatch = "none"
        /\ mon_key = channel_key

C5_Witness ==
    /\ Decrypting
    /\ Len(channel_key) = 33
    /\ mon_decrypted = None

InMemory ==
    /\ cache_file.exists /\ cache_file.valid
    /\ cache_file.positions = positions
    /\ cache_file.node_names = node_names
    /\ cache_file.hardware_models = hardware_models

\* C6 as stated: a delivery that changes the in-memory cache and has no
\* failed write leaves the snapshot file equal to the in-memory positions,
\* names and hardware models
C6_WriteThroughOnAnyChange ==
    [][(/\ delivered' = delivered + 1
        /\ cacheVars' # cacheVars
        /\ \A i \in 1..Len(saves') : saves'[i] = "ok")
       => InMemory']_vars

\* C6: a delivery whose last update_position, update_name or update_hardware
\* call wrote the snapshot successfully leaves the snapshot file equal to the
\* in-memory positions, names and hardware models
C6_WriteThroughOnUpdate ==
    [][(/\ delivered' = delivered + 1
        /\ saves' # <<>>
        /\ saves'[Len(saves')] = "ok")
       => InMemory']_vars

\* an identity message stored a name and a hardware model next to a position
C6_Witness ==
    /\ result = "nodeinfo"
    /\ saves = <<"ok", "ok">>
    /\ DOMAIN positions # {}
    /\ InMemory

\* C7: get_position, called for a sender whose position was stored at T,
\* at a time t with t - T <= TTL returns the stored position and leaves the
\* cache as it is, and otherwise removes the entry and returns none
C7_LazyExpiry ==
    [][(/\ delivered' = delivered + 1
        /\ cache_reads' # <<>>
        /\ NodeId(msg'.from) \in DOMAIN positions)
       => LET node   == NodeId(msg'.from)
              stored == positions[node]
          IN IF now - stored.updated_at <= max_age
             THEN /\ positions' = positions
                  /\ \A i \in 1..Len(publishes') :
                        /\ publishes'[i].payload.latitude = stored.latitude
                        /\ publishes'[i].payload.longitude = stored.longitude
                        /\ publishes'[i].payload.altitude = stored.altitude
             ELSE /\ positions' = DictDel(positions, node)
                  /\ \A i \in 1..Len(publishes') :
                        /\ publishes'[i].payload.latitude = None
                        /\ publishes'[i].payload.longitude = None
                        /\ publishes'[i].payload.altitude = None]_vars

\* the sender's position was evicted by the get_position of this delivery,
\* one second after its TTL: the snapshot still holds it
C7_Witness ==
    /\ cache_reads # <<>>
    /\ publishes # <<>>
    /\ Sender \notin DOMAIN positions
    /\ Sender \in DOMAIN cache_file.positions
    /\ now - cache_file.positions[Sender].updated_at = max_age + 1

\* C8: right after NodeCache construction no cached position is older than
\* the TTL
C8_NoExpiredAfterLoad ==
    result = "load_cache" =>
        \A n \in DOMAIN positions : now - positions[n].updated_at <= max_age

\* the snapshot that was loaded held an expired position
C8_Witness ==
    /\ result = "load_cache"
    /\ \E n \in DOMAIN cache_file.positions :
          /\ now - cache_file.positions[n].updated_at > max_age
          /\ n \notin DOMAIN positions
    /\ \E n \in DOMAIN cache_file.positions : n \in DOMAIN positions

\* C9: a sample with neither environment nor air-quality metrics causes no
\* publish and no cache read and leaves the cache and its snapshot unchanged
C9_NonEnvironmentalSkipped ==
    [][(/\ delivered' = delivered + 1
        /\ Sample(msg')
        /\ ~Qualifying(msg'))
       => /\ publishes' = <<>>
          /\ cache_reads' = <<>>
          /\ cacheVars' = cacheVars
          /\ cache_file' = cache_file]_vars

\* a device-metrics sample from a node whose cached position has expired
C9_Witness ==
    /\ Sample(msg)
    /\ Decoded(msg).payload.variant = "device_metrics"
    /\ result = "telemetry_skipped"
    /\ Sender \in DOMAIN positions
    /\ now - positions[Sender].updated_at > max_age

\* C10: every reading handed to the transport has an environmental or
\* air-quality metric name, in its topic and in its body
C10_OnlyQualifyingPublished ==
    \A i \in 1..Len(publishes) :
        /\ publishes[i].payload.reading_type \in QualifyingNames
        /\ publishes[i].topic[5] \in QualifyingNames

\* a sample that also carries a voltage was published
C10_Witness ==
    /\ Qualifying(msg)
    /\ "voltage" \in DOMAIN Decoded(msg).payload.metrics
    /\ Len(publishes) = 3

\* the i-th publish of the last delivery failed at the transport
Failed(i) == publishes[i].rc # MQTT_ERR_SUCCESS

\* C11: when the transport reported a failure for a publish of a qualifying
\* sample, every present qualifying metric of the sample was handed to the
\* transport
C11_FailedPublishDoesNotAbort ==
    (Qualifying(msg) /\ \E i \in 1..Len(publishes) : Failed(i)) =>
        Len(publishes) = Cardinality(PresentQualifying(msg))

\* message m is an identity (nodeinfo) update that parsed as a User message
Identity(m) ==
    /\ m.valid /\ m.has_packet
    /\ Decoded(m).portnum = NODEINFO_APP
    /\ Decoded(m).payload.schema = "user"

\* C12: an identity update stores its long_name when that is non-empty and
\* its hardware class when it carries one, for its sender, and leaves every
\* other stored name and hardware class as it was; no other step changes a
\* stored name or hardware class
C12_IdentityMerge ==
    [][IF delivered' = delivered + 1 /\ Identity(msg')
       THEN LET node == NodeId(msg'.from)
                user == Decoded(msg').payload
            IN /\ node_names' = IF user.long_name # <<>>
                                THEN DictSet(node_names, node, user.long_name)
                                ELSE node_names
               /\ hardware_models' = IF user.hw_model # 0
                                     THEN DictSet(hardware_models, node,
                                                  user.hw_model)
                                     ELSE hardware_models
       ELSE /\ node_names' = node_names
            /\ hardware_models' = hardware_models]_vars

\* long_name "Node A" was stored, then an update with only a hardware class
\* arrived: the device name still derives from "Node A"
C12_Witness ==
    /\ Identity(msg)
    /\ Decoded(msg).payload.long_name = <<>>
    /\ Decoded(msg).payload.hw_model = 9
    /\ Sender \in DOMAIN node_names
    /\ node_names[Sender] = NodeA
    /\ hardware_models[Sender] = 9
    /\ get_device_name(Cache, Sender)
           = <<"N", "o", "d", "e", "_", "A", "_">> \o Sender

\* the publishes of the last delivery ran through every present qualifying
\* metric, or ended with a publish the transport accepted
RanToAcceptedOrEnd ==
    \/ Len(publishes) = Cardinality(PresentQualifying(msg))
    \/ /\ publishes # <<>>
       /\ ~Failed(Len(publishes))

C14_GardenSensorCorrelated ==
    (/\ Qualifying(msg) /\ cache_reads # <<>>
     /\ Sender \in DOMAIN positions /\ Sender \in DOMAIN node_names) =>
        /\ \A i \in 1..Len(publishes) :
              /\ publishes[i].payload.latitude = positions[Sender].latitude
              /\ publishes[i].payload.longitude = positions[Sender].longitude
              /\ publishes[i].payload.altitude = positions[Sender].altitude
              /\ publishes[i].payload.device_id
                     = ReplaceSpace(node_names[Sender]) \o <<"_">> \o Sender
        /\ (/\ msg.from = NodeAAddr
            /\ node_names[Sender] = GardenSensor
            /\ Decoded(msg).payload.metrics = TempHumidity
            /\ AllAccepted)
           => /\ Len(publishes) = 2
              /\ publishes[1].payload.reading_type = "temperature"
              /\ publishes[1].payload.unit = "°C"
              /\ publishes[1].payload.value = 215
              /\ publishes[2].payload.reading_type = "humidity"
              /\ publishes[2].payload.unit = "%"
              /\ publishes[2].payload.value = 550
              /\ \A i \in 1..2 :
                    publishes[i].payload.device_id
                        = <<"G", "a", "r", "d", "e", "n", "_", "S", "e", "n",
                            "s", "o", "r", "_", "!", "1", "a", "2", "b", "3",
                            "c", "4", "d">>

\* whitespace characters of a Python str that the inputs use
Whitespace == {" ", "\t", "\n", "\r"}

\* a long_name with every whitespace character replaced by an underscore
Sanitized(s) == [i \in 1..Len(s) |-> IF s[i] \in Whitespace THEN "_" ELSE s[i]]

\* C15: the device name of a published reading is the sender's node_id when
\* no long_name is cached for it, and otherwise the long_name with every
\* whitespace character replaced by an underscore, an underscore, and the
\* node_id; it contains no whitespace
C15_DeviceNameSanitized ==
    \A i \in 1..Len(publishes) :
        /\ publishes[i].payload.device_id
               = IF Sender \in DOMAIN node_names
                 THEN Sanitized(node_names[Sender]) \o <<"_">> \o Sender
                 ELSE Sender
        /\ \A j \in 1..Len(publishes[i].payload.device_id) :
              publishes[i].payload.device_id[j] \notin Whitespace

\* C16: every reading of a sample carries the telemetry message's own time
\* when that is non-zero and otherwise the packet's receive time, so all
\* readings of one sample carry the same timestamp
C16_TimestampPrecedence ==
    Qualifying(msg) =>
        /\ \A i \in 1..Len(publishes) :
              publishes[i].payload.timestamp
                  = IF Decoded(msg).payload.time # 0
                    THEN Decoded(msg).payload.time
                    ELSE msg.rx_time
        /\ \A i, j \in 1..Len(publishes) :
              publishes[i].payload.timestamp = publishes[j].payload.timestamp

\* two readings of a sample with an embedded time that differs from the
\* packet's receive time
C16_Witness ==
    /\ Qualifying(msg)
    /\ Decoded(msg).payload.time = TelTime
    /\ msg.rx_time = RxTime
    /\ Len(publishes) = 2
    /\ publishes[2].payload.timestamp = TelTime

\* the metric name each qualifying protobuf field is published under
MetricName == [f \in QualifyingFields |->
    CASE f = "temperature"         -> "temperature"
      [] f = "relative_humidity"   -> "humidity"
      [] f = "barometric_pressure" -> "pressure"
      [] f = "gas_resistance"      -> "gas_resistance"
      [] f = "iaq"                 -> "iaq"
      [] f = "pm10_standard"       -> "pm1_0"
      [] f = "pm25_standard"       -> "pm2_5"
      [] f = "pm100_standard"      -> "pm10"
      [] f = "co2"                 -> "co2"
      [] f = "pm_voc_idx"          -> "voc_index"
      [] f = "pm_nox_idx"          -> "nox_index"
      [] f = "pm_temperature"      -> "temperature_pm"
      [] f = "pm_humidity"         -> "humidity_pm"]

\* message m is a position update that parsed as a Position message
PositionUpdate(m) ==
    /\ m.valid /\ m.has_packet
    /\ Decoded(m).portnum = POSITION_APP
    /\ Decoded(m).payload.schema = "position"

UnitOf == [n \in QualifyingNames |->
    CASE n \in {"temperature", "temperature_pm"} -> "°C"
      [] n \in {"humidity", "humidity_pm"}       -> "%"
      [] n = "pressure"                          -> "hPa"
      [] n = "gas_resistance"                    -> "MOhm"
      [] n = "iaq"                               -> "IAQ"
      [] n \in {"pm1_0", "pm2_5", "pm10"}        -> "µg/m³"
      [] n = "co2"                               -> "ppm"
      [] n \in {"voc_index", "nox_index"}        -> "index"]

\* C18: the unit of every published reading is the one unit of its metric
\* name, whatever the node, the value and the time
C18_UnitPerMetric ==
    \A i \in 1..Len(publishes) :
        publishes[i].payload.unit = UnitOf[publishes[i].payload.reading_type]

\* three particulate readings of one sample, with values 3, 0 and 9
C18_Witness ==
    /\ Len(publishes) = 3
    /\ publishes[1].payload.reading_type = "pm1_0"
    /\ publishes[2].payload.reading_type = "pm2_5"
    /\ publishes[3].payload.reading_type = "pm10"
    /\ \A i \in 1..3 : publishes[i].payload.unit = "µg/m³"

\* the envelope bytes of m do not parse, or the payload bytes of its
\* position, identity or telemetry packet do not
Malformed(m) ==
    \/ ~m.valid
    \/ /\ m.has_packet
       /\ Decoded(m).portnum \in {POSITION_APP, NODEINFO_APP, TELEMETRY_APP}
       /\ Decoded(m).payload.schema = "garbage"

\* C19: the delivery of a malformed message ends in an except branch of the
\* handlers, publishes nothing, and leaves the cache, its snapshot and the
\* clock, which is all that the handling of later messages reads, unchanged
C19_MalformedDropped ==
    [][(delivered' = delivered + 1 /\ Malformed(msg')) =>
          /\ result' \in {"error", "position_error", "nodeinfo_error",
                          "telemetry_error"}
          /\ publishes' = <<>>
          /\ cache_reads' = <<>>
          /\ cacheVars' = cacheVars
          /\ cache_file' = cache_file
          /\ now' = now
          /\ message_count' = message_count + 1]_vars

\* a position payload that does not parse, from a node with a cached
\* position and name, after two handled messages
C19_Witness ==
    /\ Malformed(msg)
    /\ Decoded(msg).portnum = POSITION_APP
    /\ result = "position_error"
    /\ message_count = 3
    /\ Sender \in DOMAIN positions
    /\ Sender \in DOMAIN node_names

\* the last decryption gave back a plaintext that a sender encrypted
DecryptedWhole == mon_decrypted # None /\ mon_decrypted[1] \in Plaintexts

\* C20: when the decryption of an encrypted packet did not give back the
\* sender's plaintext (key not the sender's, or ciphertext truncated), no
\* sub-decoder ran and neither decoded nor raw decrypted content was printed
C20_DecryptFailureDropped ==
    (Decrypting /\ ~DecryptedWhole) => mon_dispatch = "none"

\* a save_cache call of the last delivery failed
SaveFailed(sv) == \E i \in 1..Len(sv) : sv[i] # "ok"

\* C21: a delivery whose save_cache call fails still ends normally with the
\* in-memory cache updated; a NodeCache construction whose load fails still
\* completes, with an empty cache; and every qualifying sample, whatever
\* failed before it, is looked up and published
C21_SnapshotFailureNotFatal ==
    [][/\ (delivered' = delivered + 1 /\ SaveFailed(saves')) =>
             LET node == NodeId(msg'.from)
                 data == Decoded(msg').payload
             IN /\ result' \in {"position", "nodeinfo"}
                /\ PositionUpdate(msg') =>
                      /\ node \in DOMAIN positions'
                      /\ positions'[node].latitude = Degrees(data.latitude_i[1])
                      /\ positions'[node].longitude = Degrees(data.longitude_i[1])
                      /\ positions'[node].updated_at = now
                /\ Identity(msg') =>
                      /\ node_names' = DictSet(node_names, node, data.long_name)
                      /\ hardware_models'
                             = DictSet(hardware_models, node, data.hw_model)
       /\ restarts' = restarts + 1 =>
             /\ result' = "load_cache"
             /\ (io_failures' # io_failures \/ ~cache_file.valid) =>
                   /\ positions' = EmptyDict
                   /\ node_names' = EmptyDict
                   /\ hardware_models' = EmptyDict
       /\ (delivered' = delivered + 1 /\ Qualifying(msg')) =>
             /\ cache_reads' # <<>>
             /\ PresentQualifying(msg') # {} => publishes' # <<>>]_vars

\* a snapshot write was cut short, the process was started again and could
\* not load the snapshot, and the next sample was published
C21_Witness ==
    /\ cache_file = CorruptFile
    /\ restarts = 1
    /\ ticks = 0
    /\ positions = EmptyDict
    /\ node_names = EmptyDict
    /\ Qualifying(msg)
    /\ publishes # <<>>

\* a connection has been closed or the output network thread stopped
Closing ==
    \/ input_client = "disconnected"
    \/ output_client = "disconnected"
    \/ output_loop = "stopped"

\* C22: no connection is closed before cleanup's save_cache has run, which
\* writes the in-memory cache to the snapshot when the write succeeds; once
\* the delivery loop is interrupted no message is processed; and the
\* interruption leads to both connections being closed
C22_FlushThenClose ==
    /\ [](Closing => /\ result = "cleanup"
                     /\ saves = <<"ok">> => InMemory)
    /\ [][pc # "loop_forever" =>
            /\ message_count' = message_count
            /\ publishes' = publishes
            /\ cacheVars' = cacheVars]_vars
    /\ (pc = "cleanup") ~> (/\ input_client = "disconnected"
                            /\ output_client = "disconnected")

\* run() has returned after an interruption that followed two deliveries:
\* the snapshot holds the cached position and both connections are closed
C22_Witness ==
    /\ pc = "done"
    /\ delivered = 2
    /\ DOMAIN positions # {}
    /\ saves = <<"ok">>
    /\ InMemory
    /\ input_client = "disconnected"
    /\ output_client = "disconnected"

\* the entries of node in the three dicts of a cache
EntriesOf(p, n, h, node) ==
    <<IF node \in DOMAIN p THEN Some(p[node]) ELSE None,
      IF node \in DOMAIN n THEN Some(n[node]) ELSE None,
      IF node \in DOMAIN h THEN Some(h[node]) ELSE None>>

\* C23: each delivery handles one message to its end: the readings of a
\* sample carry the position (when unexpired), name and hardware model that
\* the cache held when the sample was delivered, that is, what the earlier
\* messages established, and a delivery changes no entry of a node other
\* than its sender
C23_InDeliveryOrder ==
    [][delivered' = delivered + 1 =>
        LET node  == NodeId(msg'.from)
            known == /\ node \in DOMAIN positions
                     /\ now - positions[node].updated_at <= max_age
        IN /\ message_count' = message_count + 1
           /\ \A other \in (DOMAIN positions \cup DOMAIN node_names
                              \cup DOMAIN hardware_models) \ {node} :
                 EntriesOf(positions', node_names', hardware_models', other)
                     = EntriesOf(positions, node_names, hardware_models, other)
           /\ Qualifying(msg') =>
                 \A i \in 1..Len(publishes') :
                    /\ publishes'[i].payload.latitude
                           = IF known THEN positions[node].latitude ELSE None
                    /\ publishes'[i].payload.longitude
                           = IF known THEN positions[node].longitude ELSE None
                    /\ publishes'[i].payload.altitude
                           = IF known THEN positions[node].altitude ELSE None
                    /\ publishes'[i].payload.device_id
                           = IF node \in DOMAIN node_names
                             THEN ReplaceSpace(node_names[node]) \o <<"_">>
                                      \o node
                             ELSE node
                    /\ publishes'[i].payload.board_model
                           = IF node \in DOMAIN hardware_models
                             THEN Some(HardwareModelNames[hardware_models[node]])
                             ELSE None]_vars

\* the third message is a sample of a node whose position and identity the
\* two messages before it established
C23_Witness ==
    /\ message_count = 3
    /\ Qualifying(msg)
    /\ Sender \in DOMAIN positions
    /\ Sender \in DOMAIN node_names
    /\ publishes # <<>>
    /\ publishes[1].payload.latitude = positions[Sender].latitude
    /\ publishes[1].payload.board_model = Some("HELTEC_V3")

\* C24: the cache and its snapshot are read and written only by a delivery
\* of the input loop or by cleanup's save_cache after that loop has stopped,
\* one message at a time; an iteration of the output client's network thread
\* reads and writes none of them and runs no handler
C24_SingleWriter ==
    [][/\ (\/ cacheVars' # cacheVars
           \/ cache_file' # cache_file
           \/ cache_reads' # cache_reads)
          => \/ /\ pc = "loop_forever" /\ pc' = "loop_forever"
                /\ delivered' = delivered + 1
             \/ /\ pc = "cleanup" /\ pc' = "input_disconnect"
                /\ cacheVars' = cacheVars
       /\ loop_iterations' # loop_iterations
          => /\ cacheVars' = cacheVars
             /\ cache_file' = cache_file
             /\ cache_reads' = cache_reads
             /\ saves' = saves
             /\ publishes' = publishes
             /\ message_count' = message_count]_vars

\* the network thread has run next to two deliveries that cached a position
\* and looked it up
C24_Witness ==
    /\ loop_iterations = 2
    /\ pc = "loop_forever"
    /\ delivered = 2
    /\ DOMAIN positions # {}
    /\ cache_reads # <<>>
    /\ publishes # <<>>

\* C25: a position update with both coordinates leaves the sender's entry
\* with exactly the new latitude, longitude and altitude (none when the
\* message has none, whatever was stored before) and the current time as
\* its capture time, and get_position called right afterwards returns it
C25_PositionOverwritten ==
    [][(/\ delivered' = delivered + 1
        /\ PositionUpdate(msg')
        /\ Decoded(msg').payload.latitude_i # None
        /\ Decoded(msg').payload.longitude_i # None)
       => LET node     == NodeId(msg'.from)
              position == Decoded(msg').payload
              entry    == [latitude   |-> Degrees(position.latitude_i[1]),
                           longitude  |-> Degrees(position.longitude_i[1]),
                           altitude   |-> position.altitude,
                           timestamp  |-> IF position.time # 0
                                          THEN position.time ELSE now,
                           updated_at |-> now]
          IN /\ positions' = DictSet(positions, node, entry)
             /\ get_position(Cache', node, now').ret = Some(entry)
             /\ get_position(Cache', node, now').c = Cache']_vars

\* a position whose fix time lies more than the TTL back was cached: its age
\* counts from the call
C25_Witness ==
    /\ PositionUpdate(msg)
    /\ Sender \in DOMAIN positions
    /\ now - positions[Sender].timestamp > max_age
    /\ positions[Sender].updated_at = now
    /\ message_count >= 2
    /\ get_position(Cache, Sender, now).ret = Some(positions[Sender])

\* the number that the hex digits s[i..] spell
RECURSIVE HexValue(_, _)
HexValue(s, i) ==
    IF i > Len(s) THEN 0
    ELSE (CHOOSE d \in 0..15 : HexDigits[d + 1] = s[i]) * Pow16(Len(s) - i)
             + HexValue(s, i + 1)

LowerHex == {HexDigits[d] : d \in 1..16}

\* C26: the cache key of a sender address is "!" followed by 8 lower-case
\* hex digits that spell the address, so equal keys mean equal addresses;
\* a cache that stored the entries of two addresses holds one position, one
\* name and one hardware class under each key, and those of the first
\* address are still its own when the second address is another one
C26_CacheKeyInjective ==
    call.op = "node_id" =>
        LET a  == call.args[1]
            b  == call.args[2]
            ka == call.ret[1]
            kb == call.ret[2]
        IN /\ \A k \in {ka, kb} :
                 /\ Len(k) = 9
                 /\ k[1] = "!"
                 /\ \A i \in 2..9 : k[i] \in LowerHex
           /\ HexValue(ka, 2) = a
           /\ HexValue(kb, 2) = b
           /\ (ka = kb) <=> (a = b)
           /\ DOMAIN call.cache.positions = {ka, kb}
           /\ DOMAIN call.cache.node_names = {ka, kb}
           /\ DOMAIN call.cache.hardware_models = {ka, kb}
           /\ a # b => /\ call.cache.positions[ka].altitude = Some(1)
                       /\ call.cache.node_names[ka] = <<"n", "1">>
                       /\ call.cache.hardware_models[ka] = 1
                       /\ call.cache.hardware_models[kb] = 2

\* the addresses 0x00000010 and 0x00100010, which share their low digits,
\* got different keys and separate entries
C26_Witness ==
    /\ call.op = "node_id"
    /\ call.args = <<16, 1048592>>
    /\ call.ret[1] = <<"!", "0", "0", "0", "0", "0", "0", "1", "0">>
    /\ call.ret[2] = <<"!", "0", "0", "1", "0", "0", "0", "1", "0">>
    /\ Cardinality(DOMAIN call.cache.positions) = 2

\* the number that the 4 bytes b[i..i+3] encode, least significant first
LE32(b, i) == b[i] + 256 * b[i + 1] + 65536 * b[i + 2] + 16777216 * b[i + 3]

C28_CacheBounded ==
    (ticks > 0 /\ result # "tick") =>
        \A n \in DOMAIN positions : now - positions[n].updated_at <= max_age

Namespace == <<"skytrace", "decoded", "env">>

\* C31: every publish goes to the topic <namespace>/<device_name>/<metric
\* name>, the device name being the sender's and the metric name the one in
\* the body, with QoS 0 and retain off, and its body carries the region ANZ,
\* the device type PORTABLE, the transport type LORA and the sensor model
\* MESHTASTIC
C31_TopicAndStaticTags ==
    \A i \in 1..Len(publishes) :
        /\ publishes[i].topic = Namespace \o <<get_device_name(Cache, Sender),
                                               publishes[i].payload.reading_type>>
        /\ publishes[i].payload.device_id = get_device_name(Cache, Sender)
        /\ publishes[i].qos = 0
        /\ publishes[i].retain = FALSE
        /\ publishes[i].payload.deployment_region = "ANZ"
        /\ publishes[i].payload.deployment_type = "PORTABLE"
        /\ publishes[i].payload.transport_type = "LORA"
        /\ publishes[i].payload.sensor_model = "MESHTASTIC"

\* two readings of a named node with a cached position went out, to two
\* topics, the first of them refused by the transport
C31_Witness ==
    /\ Len(publishes) = 2
    /\ Failed(1)
    /\ publishes[1].topic # publishes[2].topic
    /\ Sender \in DOMAIN node_names
    /\ publishes[2].payload.latitude # None
    /\ publishes[2].topic[4] = get_device_name(Cache, Sender)


\* the port the decoder reads from message m is none of position, identity
\* and telemetry
OtherPort(m) ==
    /\ m.valid /\ m.has_packet
    /\ Decoded(m).portnum \notin {POSITION_APP, NODEINFO_APP, TELEMETRY_APP}

\* C32: the delivery of a packet whose port is text or any other port than
\* position, identity and telemetry publishes nothing, reads nothing from the
\* cache and leaves the positions, names, hardware classes and the snapshot
\* as they were, whatever its payload
C32_OtherPortsPassThrough ==
    [][(delivered' = delivered + 1 /\ OtherPort(msg'))
       => /\ publishes' = <<>>
          /\ cache_reads' = <<>>
          /\ saves' = <<>>
          /\ cacheVars' = cacheVars
          /\ cache_file' = cache_file
          /\ result' = "ignored"]_vars

\* a text packet whose payload bytes are those of a position was delivered
\* from a node the cache holds another position of
C32_Witness ==
    /\ OtherPort(msg)
    /\ Decoded(msg).portnum = TEXT_MESSAGE_APP
    /\ Decoded(msg).payload = FullPosition
    /\ result = "ignored"
    /\ Sender \in DOMAIN positions
    /\ positions[Sender].latitude = Degrees(0)


\* the publishes of the last delivery that the transport accepted
Accepted == {i \in 1..Len(publishes) : ~Failed(i)}

\* C33: of the publishes of one telemetry sample at most one was accepted by
\* the transport; an accepted publish is the last one handed to the
\* transport for the sample, metrics present after it are not handed over,
\* and _handle_telemetry ended in its error branch
C33_OneAcceptedPublishPerSample ==
    Sample(msg) =>
        /\ Cardinality(Accepted) <= 1
        /\ \A i \in Accepted :
              /\ i = Len(publishes)
              /\ result = "telemetry_error"

\* of three present metrics the first was refused, the second accepted and
\* the third never handed to the transport
C33_Witness ==
    /\ Qualifying(msg)
    /\ Cardinality(PresentQualifying(msg)) = 3
    /\ Len(publishes) = 2
    /\ Failed(1)
    /\ Accepted = {2}
    /\ result = "telemetry_error"


\* C34: the delivery of a telemetry sample reads the cache only when it
\* hands at least one reading to the transport, and a sample with no present
\* qualifying metric reads nothing from the cache and leaves the positions,
\* names and hardware classes as they were
C34_LookupOnlyWhenPublishing ==
    [][(delivered' = delivered + 1 /\ Sample(msg'))
       => /\ cache_reads' # <<>> => publishes' # <<>>
          /\ PresentQualifying(msg') = {}
                 => /\ cache_reads' = <<>>
                    /\ cacheVars' = cacheVars]_vars


\* C35: at any time, also after a restart has reloaded the snapshot,
\* get_position returns for no node a position older than the TTL, and every
\* reading that carries a location carries the one stored for its sender, not
\* older than the TTL at the time of the delivery
C35_NoExpiredPositionReturned ==
    /\ [](\A n \in DOMAIN positions :
             LET ret == get_position(Cache, n, now).ret
             IN ret # None => now - ret[1].updated_at <= max_age)
    /\ [][(delivered' = delivered + 1 /\ cache_reads' # <<>>)
          => \A i \in 1..Len(publishes') :
                publishes'[i].payload.latitude # None
                    => LET node == NodeId(msg'.from)
                       IN /\ node \in DOMAIN positions
                          /\ now - positions[node].updated_at <= max_age
                          /\ publishes'[i].payload.latitude
                                 = positions[node].latitude
                          /\ publishes'[i].payload.longitude
                                 = positions[node].longitude]_vars

\* after a restart a reading went out without location although the snapshot
\* that was reloaded still holds its sender's position, older than the TTL
C35_Witness ==
    /\ restarts = 1
    /\ message_count = 1
    /\ Qualifying(msg)
    /\ publishes # <<>>
    /\ publishes[1].payload.latitude = None
    /\ Sender \notin DOMAIN positions
    /\ cache_file.exists /\ cache_file.valid
    /\ Sender \in DOMAIN cache_file.positions
    /\ now - cache_file.positions[Sender].updated_at > max_age


\* device name d is name-prefixed for node: the long_name, with every space
\* replaced, then "_" and the node id
NamePrefixed(d, long_name, node) ==
    /\ Len(d) = Len(long_name) + 1 + Len(node)
    /\ \A i \in 1..Len(long_name) :
          d[i] = IF long_name[i] = " " THEN "_" ELSE long_name[i]
    /\ SubSeq(d, Len(long_name) + 1, Len(d)) = <<"_">> \o node

\* C36: while a process runs, no step removes a node from the names or from
\* the hardware classes, and every reading of a node with a cached long_name
\* goes out under the name-prefixed device name, also when the delivery
\* evicted the node's expired position; a restart that reads the snapshot
\* takes over all its names and hardware classes, whatever their age
C36_IdentityNeverExpires ==
    [][IF restarts' = restarts
       THEN /\ DOMAIN node_names \subseteq DOMAIN node_names'
            /\ DOMAIN hardware_models \subseteq DOMAIN hardware_models'
            /\ (delivered' = delivered + 1
                   /\ NodeId(msg'.from) \in DOMAIN node_names)
                   => \A i \in 1..Len(publishes') :
                         NamePrefixed(publishes'[i].payload.device_id,
                                      node_names[NodeId(msg'.from)],
                                      NodeId(msg'.from))
       ELSE (io_failures' = io_failures /\ cache_file.exists
                /\ cache_file.valid)
               => /\ node_names' = cache_file.node_names
                  /\ hardware_models' = cache_file.hardware_models]_vars

\* a reading of "Garden Sensor" went out under its name-prefixed device name
\* and without location: the delivery evicted the node's expired position
C36_Witness ==
    /\ Qualifying(msg)
    /\ publishes # <<>>
    /\ Sender \in DOMAIN node_names
    /\ node_names[Sender] = GardenSensor
    /\ NamePrefixed(publishes[1].payload.device_id, GardenSensor, Sender)
    /\ publishes[1].payload.latitude = None
    /\ Sender \notin DOMAIN positions
    /\ cache_file.exists /\ cache_file.valid
    /\ Sender \in DOMAIN cache_file.positions
    /\ restarts = 0


\* dicts d and e hold the same for key n: both nothing, or the same value
SameEntry(d, e, n) ==
    /\ n \in DOMAIN d <=> n \in DOMAIN e
    /\ n \in DOMAIN d => d[n] = e[n]

\* C37: the delivery of a message leaves the position, the name and the
\* hardware class of every node other than its sender as they were, and a
\* message that carries no packet leaves those of every node
C37_OnlySenderEntriesTouched ==
    [][delivered' = delivered + 1
       => \A n \in DOMAIN positions \cup DOMAIN positions'
                  \cup DOMAIN node_names \cup DOMAIN node_names'
                  \cup DOMAIN hardware_models \cup DOMAIN hardware_models' :
             (msg'.valid /\ msg'.has_packet /\ n = NodeId(msg'.from))
             \/ /\ SameEntry(positions, positions', n)
                /\ SameEntry(node_names, node_names', n)
                /\ SameEntry(hardware_models, hardware_models', n)]_vars

\* a telemetry delivery evicted its sender's expired position and left the
\* equally expired position of the other node in the cache
C37_Witness ==
    /\ Qualifying(msg)
    /\ cache_reads # <<>>
    /\ Sender \notin DOMAIN positions
    /\ Sender \in DOMAIN cache_file.positions
    /\ \E n \in DOMAIN positions :
          /\ n # Sender
          /\ now - positions[n].updated_at > max_age


\* the port the decoder reads from message m is port
Port(m, port) == m.valid /\ m.has_packet /\ Decoded(m).portnum = port

\* C38: the delivery of a telemetry message leaves the names and the hardware
\* classes as they were and either leaves the positions as they were or
\* removes the sender's position, which then was older than the TTL; the
\* delivery of a position message leaves the names and the hardware classes,
\* and that of an identity message the positions, as they were
C38_HandlerWriteSets ==
    [][delivered' = delivered + 1
       => /\ Port(msg', TELEMETRY_APP)
                => /\ node_names' = node_names
                   /\ hardware_models' = hardware_models
                   /\ \/ positions' = positions
                      \/ LET node == NodeId(msg'.from)
                         IN /\ node \in DOMAIN positions
                            /\ now - positions[node].updated_at > max_age
                            /\ positions' = DictDel(positions, node)
          /\ Port(msg', POSITION_APP)
                => /\ node_names' = node_names
                   /\ hardware_models' = hardware_models
          /\ Port(msg', NODEINFO_APP)
                => positions' = positions]_vars

\* a telemetry delivery from a node with a cached name and hardware class
\* removed the node's expired position and was published
C38_Witness ==
    /\ Port(msg, TELEMETRY_APP)
    /\ publishes # <<>>
    /\ publishes[1].payload.board_model = Some("HELTEC_V3")
    /\ Sender \in DOMAIN node_names
    /\ Sender \in DOMAIN hardware_models
    /\ Sender \notin DOMAIN positions
    /\ cache_file.exists
    /\ Sender \in DOMAIN cache_file.positions


\* C39: every delivery to _on_message raises message_count by exactly one,
\* whether the envelope parses, carries a packet, is handled or published,
\* and no other step of the running decoder changes message_count
C39_MessageCountCountsDeliveries ==
    [][IF delivered' = delivered + 1
       THEN message_count' = message_count + 1
       ELSE message_count' = message_count]_vars

\* the second message counted was an envelope that did not parse, after a
\* message that was handled
C39_Witness ==
    /\ message_count = 2
    /\ ~msg.valid
    /\ result = "error"
    /\ DOMAIN positions # {}

====
